---- MODULE Spec2Model ----
(***************************************************************************)
(* Model of pyarchery/setup_java.py: the checksum registry, the atomic     *)
(* downloader, the dependency installer and the JVM bootstrap coordinator. *)
(*                                                                         *)
(* Text is modelled as a sequence of tokens (a token plays the role of a   *)
(* character: " " is whitespace, "#" the comment marker, ":" the field     *)
(* separator of a descriptor, "A".."F" upper-case hex digits).  A file     *)
(* body is a sequence of chunks.  An optional value is a sequence of       *)
(* length 0 (None / absent) or 1.                                          *)
(***************************************************************************)
EXTENDS Integers, Sequences, FiniteSets, TLC

\* ------------------------------------------------------------------ bounds
NumThreads == 2
MaxCalls == 3
MaxLines == 2

Threads == 1..NumThreads
NoThread == 0

\* ------------------------------------------------------------- option type
None == <<>>
Some(x) == <<x>>
IsNone(o) == o = <<>>
Val(o) == o[1]

\* -------------------------------------------------------------------- text
\* str.lower() on one character
LowerTok(t) ==
  CASE t = "A" -> "a"
    [] t = "B" -> "b"
    [] t = "C" -> "c"
    [] t = "D" -> "d"
    [] t = "E" -> "e"
    [] t = "F" -> "f"
    [] t = "AMD64" -> "amd64"
    [] t = "LINUX" -> "linux"
    [] OTHER -> t

\* str.lower()
Lower(s) == [i \in 1..Len(s) |-> LowerTok(s[i])]

\* hex digit of one chunk of a body
HexDigit(b) ==
  CASE b = 1 -> "a"
    [] b = 2 -> "b"
    [] b = 3 -> "c"
    [] OTHER -> "d"

\* _sha256_file applied to a file body: an injective map to a non-empty
\* lower-case hex string (hashlib's hexdigest() is lower case).
Sha256(body) == <<"e">> \o [i \in 1..Len(body) |-> HexDigit(body[i])]

\* Python truthiness of an Optional[str]
Truthy(o) == ~IsNone(o) /\ Val(o) # <<>>

\* ------------------------------------------------------------- directories
\* A directory is a set of <<name, body>> pairs with distinct names.
Exists(d, n) == \E f \in d : f[1] = n
Read(d, n) == IF Exists(d, n) THEN Some((CHOOSE f \in d : f[1] = n)[2]) ELSE None
RemoveFile(d, n) == {f \in d : f[1] # n}
WriteFile(d, n, c) == RemoveFile(d, n) \cup {<<n, c>>}
Names(d) == {f[1] : f \in d}

\* name tempfile.mkstemp(dir=..., suffix=".part") hands out
TmpName == <<"tmp", ".part">>

\* ------------------------------------------------------- program constants
\* __version__ (imported from .version)
VERSION == <<"2">>
\* MAVEN_URL and MAVEN_SNAPSHOT_URL (imported from .config)
MAVEN_URL == <<"MAVEN_URL">>
MAVEN_SNAPSHOT_URL == <<"MAVEN_SNAPSHOT_URL">>
\* package_path / "dependencies.sha256"
ChecksumPath == "dependencies.sha256"
Paths == {ChecksumPath, "other.sha256"}
\* body every URL of the repository serves
ServerBody(url) == <<1, 2>>

VARIABLES
  SKIP_JVM_START,     \* config flag PYARCHERY_SKIP_JVM_START
  REQUIRE_CHECKSUMS,  \* config flag
  FETCH_ALL_NATIVE,   \* config flag
  sysPlatform,        \* sys.platform
  machine,            \* platform.machine()
  depsFile,           \* lines of the "dependencies" file
  checksumFiles,      \* path -> optional list of lines
  checksumCache,      \* functools.cache of _get_checksums: path -> mapping
  jarsExists,         \* os.path.exists(jars_path)
  jars,               \* files of the jars_path directory
  jvmStarted,         \* _jvm_started
  jvmRunning,         \* jpype.isJVMStarted()
  lockHolder,         \* owner of _jvm_lock, NoThread when free
  pc,                 \* per thread: position in start_java_archery_framework
  calls,              \* number of calls made so far, all threads together
  inst,               \* frame of _install_all_dependencies
  dl,                 \* frame of _download_with_verification
  hist                \* history: observations used by the properties

config == <<SKIP_JVM_START, REQUIRE_CHECKSUMS, FETCH_ALL_NATIVE, sysPlatform, machine,
            depsFile>>
coord == <<jvmStarted, jvmRunning, lockHolder, pc, calls>>
vars == <<config, checksumFiles, checksumCache, jarsExists, jars, coord, inst, dl, hist>>

\* ------------------------------------------------------- checksum registry
IsSpace(t) == t \in {" ", "\n", "\t"}

RECURSIVE LStrip(_)
LStrip(s) == IF s # <<>> /\ IsSpace(Head(s)) THEN LStrip(Tail(s)) ELSE s

RECURSIVE RStrip(_)
RStrip(s) ==
  IF s # <<>> /\ IsSpace(s[Len(s)]) THEN RStrip(SubSeq(s, 1, Len(s) - 1)) ELSE s

\* str.strip()
Strip(s) == LStrip(RStrip(s))

\* index of the first whitespace character of s, 0 when there is none
RECURSIVE FirstSpace(_, _)
FirstSpace(s, i) ==
  IF i > Len(s) THEN 0 ELSE IF IsSpace(s[i]) THEN i ELSE FirstSpace(s, i + 1)

\* line.split(None, 1) on a stripped, non-empty line: one or two words
SplitFirst(line) ==
  LET k == FirstSpace(line, 1) IN
    IF k = 0 THEN <<line>>
    ELSE <<SubSeq(line, 1, k - 1), LStrip(SubSeq(line, k, Len(line)))>>

\* A dict is a set of <<key, value>> pairs with distinct keys.
EmptyMap == {}
HasKey(m, k) == \E e \in m : e[1] = k
MapGet(m, k) == IF HasKey(m, k) THEN Some((CHOOSE e \in m : e[1] = k)[2]) ELSE None
MapPut(m, k, v) == {e \in m : e[1] # k} \cup {<<k, v>>}

\* body of the "for line in fh" loop of _load_checksums
LoadLine(checksums, raw) ==
  LET line == Strip(raw) IN
    IF line = <<>> \/ line[1] = "#" THEN checksums
    ELSE LET w == SplitFirst(line) IN
           IF Len(w) = 2 THEN MapPut(checksums, w[2], w[1])
           ELSE checksums

RECURSIVE LoadLines(_, _)
LoadLines(checksums, lines) ==
  IF lines = <<>> THEN checksums
  ELSE LoadLines(LoadLine(checksums, Head(lines)), Tail(lines))

\* faulty variant of LoadChecksums: a missing file is never an error
LoadChecksumsNeverRaises(file, require) ==
  [raised |-> FALSE, map |-> IF IsNone(file) THEN EmptyMap ELSE LoadLines(EmptyMap, Val(file))]

\* _load_checksums: [raised, map]
LoadChecksums(file, require) ==
  IF IsNone(file)
  THEN [raised |-> require, map |-> EmptyMap]
  ELSE [raised |-> FALSE, map |-> LoadLines(EmptyMap, Val(file))]

\* faulty variant of CacheHit: the loader is not memoized
CacheNeverHit(cache, path) == FALSE

\* whether _get_checksums answers from its cache
CacheHit(cache, path) == HasKey(cache, path)

\* _get_checksums: [raised, map, cache]
GetChecksums(cache, path, file, require) ==
  IF CacheHit(cache, path)
  THEN [raised |-> FALSE, map |-> Val(MapGet(cache, path)), cache |-> cache]
  ELSE LET r == LoadChecksums(file, require) IN
         [raised |-> r.raised, map |-> r.map,
          cache |-> IF r.raised THEN cache ELSE MapPut(cache, path, r.map)]

\* ------------------------------------------------------- artifact resolver
StartsWith(s, p) == Len(p) <= Len(s) /\ SubSeq(s, 1, Len(p)) = p

\* str.split(sep)
RECURSIVE SplitAcc(_, _, _, _)
SplitAcc(s, sep, cur, acc) ==
  IF s = <<>> THEN Append(acc, cur)
  ELSE IF Head(s) = sep THEN SplitAcc(Tail(s), sep, <<>>, Append(acc, cur))
  ELSE SplitAcc(Tail(s), sep, Append(cur, Head(s)), acc)

Split(s, sep) == SplitAcc(s, sep, <<>>, <<>>)

\* "SNAPSHOT" in version
HasSnapshot(version) == \E i \in 1..Len(version) : version[i] = "SNAPSHOT"

\* version.replace("-SNAPSHOT", "")
RECURSIVE DropSnapshot(_)
DropSnapshot(v) ==
  IF v = <<>> THEN <<>>
  ELSE IF StartsWith(v, <<"-", "SNAPSHOT">>) THEN DropSnapshot(SubSeq(v, 3, Len(v)))
  ELSE <<Head(v)>> \o DropSnapshot(Tail(v))

\* package.replace(".", "/")
PackagePath(package) == [i \in 1..Len(package) |-> IF package[i] = "." THEN "/" ELSE package[i]]

\* candidate prefixes of _arch_matches_platform
Candidates(system, mach) ==
  IF StartsWith(system, <<"linux">>)
  THEN {<<"linux">>, <<"linux", "-", mach>>}
  ELSE IF system = <<"darwin">>
  THEN {<<"osx">>, <<"macos">>, <<"osx", "-", mach>>, <<"macos", "-", mach>>}
  ELSE IF StartsWith(system, <<"win">>)
  THEN {<<"windows">>, <<"windows", "-", mach>>, <<"win">>, <<"win", "-", mach>>}
  ELSE {}

\* faulty variant of ArchMatchesPlatform: the classifier is not lower-cased
ArchMatchesCaseSensitive(arch, fetchAll, system, mach) ==
  \/ fetchAll
  \/ \E c \in Candidates(system, Lower(mach)) : StartsWith(arch, c)

\* _arch_matches_platform
ArchMatchesPlatform(arch, fetchAll, system, mach) ==
  \/ fetchAll
  \/ \E c \in Candidates(system, Lower(mach)) : StartsWith(Lower(arch), c)

\* file name "{name}-{version}.{extension}"
FileName(name, version, extension) == name \o <<"-">> \o version \o <<".">> \o extension
\* file name "{name}-{version}-{arch}.{extension}"
FileNameArch(name, version, arch, extension) ==
  name \o <<"-">> \o version \o <<"-">> \o arch \o <<".">> \o extension

\* "/".join([base_url, package.replace(".", "/"), name, version, file_name])
Url(base, package, name, version, file_name) ==
  base \o <<"/">> \o PackagePath(package) \o <<"/">> \o name \o <<"/">> \o version
       \o <<"/">> \o file_name

\* lines 153-172 of _install_one_dependency: the parse of one descriptor
Resolve(dep, fetchAll, system, mach) ==
  LET parts == Split(dep, ":") IN
    IF Len(parts) = 4
    THEN [kind |-> "ok",
          file_name |-> FileName(parts[2], parts[4], parts[3]),
          file_name_disk |-> FileName(parts[2], parts[4], parts[3]),
          url |-> Url(MAVEN_URL, parts[1], parts[2], parts[4],
                      FileName(parts[2], parts[4], parts[3]))]
    ELSE IF Len(parts) # 5
    THEN [kind |-> "error", file_name |-> <<>>, file_name_disk |-> <<>>, url |-> <<>>]
    ELSE LET package == parts[1]
             name == parts[2]
             extension == parts[3]
             arch == parts[4]
             version == parts[5]
         IN IF arch # <<>> /\ ~ArchMatchesPlatform(arch, fetchAll, system, mach)
            THEN [kind |-> "skip", file_name |-> <<>>, file_name_disk |-> <<>>,
                  url |-> <<>>]
            ELSE IF HasSnapshot(version)
            THEN [kind |-> "ok",
                  file_name |-> FileNameArch(name, DropSnapshot(version), arch, extension),
                  file_name_disk |-> FileName(name, version, extension),
                  url |-> Url(MAVEN_SNAPSHOT_URL, package, name, version,
                              FileNameArch(name, DropSnapshot(version), arch, extension))]
            ELSE [kind |-> "ok",
                  file_name |-> FileNameArch(name, version, arch, extension),
                  file_name_disk |-> FileNameArch(name, version, arch, extension),
                  url |-> Url(MAVEN_URL, package, name, version,
                              FileNameArch(name, version, arch, extension))]

\* faulty variant of ExpectedChecksum: the remote file name is looked up first
ExpectedChecksumRemoteFirst(checksum_map, file_name_disk, file_name) ==
  IF Truthy(MapGet(checksum_map, file_name))
  THEN MapGet(checksum_map, file_name)
  ELSE MapGet(checksum_map, file_name_disk)

\* checksum_map.get(file_name_disk) or checksum_map.get(file_name)
ExpectedChecksum(checksum_map, file_name_disk, file_name) ==
  IF Truthy(MapGet(checksum_map, file_name_disk))
  THEN MapGet(checksum_map, file_name_disk)
  ELSE MapGet(checksum_map, file_name)

\* ------------------------------------------------------- atomic downloader
\* Retry(total=3, status_forcelist=(429, 500, 502, 503, 504))
RetryTotal == 3
StatusForcelist == {429, 500, 502, 503, 504}
\* status codes the repository server answers with
Statuses == {200, 404, 429, 501, 503}

DlIdle ==
  [pc |-> "idle", url |-> <<>>, target |-> <<>>, checksum |-> None,
   status |-> 0,    \* status of the latest response, 0 when there was none
   written |-> 0,
   attempt |-> 0,   \* retries made so far by the adapter for the current GET
   error |-> "none"]

\* entry of _download_with_verification(url, target_path, checksum)
DlCall(url, target, checksum) ==
  [DlIdle EXCEPT !.pc = "mkstemp", !.url = url, !.target = target, !.checksum = checksum]

DlDone == dl.pc \in {"idle", "returned", "raised"}

\* faulty variant of ChecksumOk: the digests are compared case-sensitively
ChecksumOkCaseSensitive(actual, checksum) == actual = checksum

\* line 114: actual.lower() != checksum.lower()
ChecksumOk(actual, checksum) == Lower(actual) = Lower(checksum)

\* faulty variant of Cleanup: the temporary file is left behind
CleanupForgotten(d) == d

\* lines 121-122: remove the temporary file if it exists
Cleanup(d) == IF Exists(d, TmpName) THEN RemoveFile(d, TmpName) ELSE d

\* line 118: os.replace(tmp_path, target_path)
Replace(d, target) == WriteFile(RemoveFile(d, TmpName), target, Val(Read(d, TmpName)))

\* lines 99-100: tempfile.mkstemp in the target's directory
DlMkstemp ==
  /\ dl.pc = "mkstemp"
  /\ \/ /\ jarsExists
        /\ jars' = WriteFile(jars, TmpName, <<>>)
        /\ dl' = [dl EXCEPT !.pc = "get"]
     \/ /\ dl' = [dl EXCEPT !.pc = "raised", !.error = "OSError"]
        /\ UNCHANGED jars
  /\ UNCHANGED <<config, checksumFiles, checksumCache, jarsExists, coord, inst, hist>>

\* line 103: _SESSION.get through the retrying adapter (lines 38-44)
DlGet ==
  /\ dl.pc = "get"
  /\ \/ \E s \in Statuses :
          dl' = IF s \in StatusForcelist /\ dl.attempt < RetryTotal
                THEN [dl EXCEPT !.attempt = @ + 1, !.status = s]
                ELSE [dl EXCEPT !.pc = "status", !.status = s, !.attempt = 0]
     \/ dl' = IF dl.attempt < RetryTotal
              THEN [dl EXCEPT !.attempt = @ + 1, !.status = 0]
              ELSE [dl EXCEPT !.pc = "except", !.error = "ConnectionError", !.attempt = 0]
  /\ UNCHANGED <<config, checksumFiles, checksumCache, jarsExists, jars, coord, inst, hist>>

\* lines 104-107: status check, then open(tmp_path, "wb")
DlStatus ==
  /\ dl.pc = "status"
  /\ IF dl.status # 200
     THEN /\ dl' = [dl EXCEPT !.pc = "except", !.error = "DownloadFailed"]
          /\ UNCHANGED jars
     ELSE /\ dl' = [dl EXCEPT !.pc = "write"]
          /\ jars' = WriteFile(jars, TmpName, <<>>)
  /\ UNCHANGED <<config, checksumFiles, checksumCache, jarsExists, coord, inst, hist>>

\* lines 108-110: stream the body into the temporary file, chunk by chunk
DlWrite ==
  /\ dl.pc = "write"
  /\ \/ /\ dl.written < Len(ServerBody(dl.url))
        /\ jars' = WriteFile(jars, TmpName,
                     Append(Val(Read(jars, TmpName)), ServerBody(dl.url)[dl.written + 1]))
        /\ dl' = [dl EXCEPT !.written = @ + 1]
     \/ /\ dl.written < Len(ServerBody(dl.url))
        /\ dl' = [dl EXCEPT !.pc = "except", !.error = "StreamError"]
        /\ UNCHANGED jars
     \/ /\ dl.written = Len(ServerBody(dl.url))
        /\ dl' = [dl EXCEPT !.pc = "verify"]
        /\ UNCHANGED jars
  /\ UNCHANGED <<config, checksumFiles, checksumCache, jarsExists, coord, inst, hist>>

\* lines 112-116: checksum verification of the temporary file
DlVerify ==
  /\ dl.pc = "verify"
  /\ dl' = IF Truthy(dl.checksum)
              /\ ~ChecksumOk(Sha256(Val(Read(jars, TmpName))), Val(dl.checksum))
           THEN [dl EXCEPT !.pc = "except", !.error = "ChecksumMismatch"]
           ELSE [dl EXCEPT !.pc = "replace"]
  /\ UNCHANGED <<config, checksumFiles, checksumCache, jarsExists, jars, coord, inst, hist>>

\* lines 118-119: os.replace, which may fail
DlReplace ==
  /\ dl.pc = "replace"
  /\ \/ /\ jars' = Replace(jars, dl.target)
        /\ dl' = [dl EXCEPT !.pc = "returned"]
     \/ /\ dl' = [dl EXCEPT !.pc = "except", !.error = "ReplaceFailed"]
        /\ UNCHANGED jars
  /\ UNCHANGED <<config, checksumFiles, checksumCache, jarsExists, coord, inst, hist>>

\* lines 120-123: cleanup, then re-raise
DlExcept ==
  /\ dl.pc = "except"
  /\ jars' = Cleanup(jars)
  /\ dl' = [dl EXCEPT !.pc = "raised"]
  /\ UNCHANGED <<config, checksumFiles, checksumCache, jarsExists, coord, inst, hist>>

\* ---------------------------------------------------- dependency installer
InstIdle == [pc |-> "idle", idx |-> 0, checksum_map |-> EmptyMap, error |-> "none"]

\* faulty variant of ExistingOk: an existing file is never verified
ExistingNeverVerified(body, expected) == TRUE

\* line 181: digest of the existing file against the expected checksum
ExistingOk(body, expected) == Lower(Sha256(body)) = Lower(expected)

\* faulty variant of InstallOne: the checksum is required before the classifier
\* is compared with the platform
InstallOneChecksumFirst(dep, checksum_map, d, require, fetchAll, system, mach) ==
  LET r == Resolve(dep, fetchAll, system, mach)
      expected == ExpectedChecksum(checksum_map, r.file_name_disk, r.file_name)
      plan(act, err) == [act |-> act, error |-> err, url |-> r.url,
                         target |-> r.file_name_disk, checksum |-> expected]
  IN IF r.kind = "error" THEN plan("raise", "ValueError")
     ELSE IF IsNone(expected) /\ require THEN plan("raise", "MissingChecksum")
     ELSE IF r.kind = "skip" THEN plan("skip", "none")
     ELSE IF Exists(d, r.file_name_disk)
     THEN IF Truthy(expected)
          THEN IF ExistingOk(Val(Read(d, r.file_name_disk)), Val(expected))
               THEN plan("reuse", "none")
               ELSE plan("redownload", "none")
          ELSE plan("reuse", "none")
     ELSE plan("download", "none")

\* lines 153-194 of _install_one_dependency, up to the call of the downloader:
\* what is done with one descriptor, given the checksum map and the directory
InstallOne(dep, checksum_map, d, require, fetchAll, system, mach) ==
  LET r == Resolve(dep, fetchAll, system, mach)
      expected == ExpectedChecksum(checksum_map, r.file_name_disk, r.file_name)
      plan(act, err) == [act |-> act, error |-> err, url |-> r.url,
                         target |-> r.file_name_disk, checksum |-> expected]
  IN IF r.kind = "error" THEN plan("raise", "ValueError")
     ELSE IF r.kind = "skip" THEN plan("skip", "none")
     ELSE IF IsNone(expected) /\ require THEN plan("raise", "MissingChecksum")
     ELSE IF Exists(d, r.file_name_disk)
     THEN IF Truthy(expected)
          THEN IF ExistingOk(Val(Read(d, r.file_name_disk)), Val(expected))
               THEN plan("reuse", "none")
               ELSE plan("redownload", "none")
          ELSE plan("reuse", "none")
     ELSE plan("download", "none")

\* line 203: os.makedirs(jars_path, exist_ok=True)
InstMakedirs ==
  /\ inst.pc = "makedirs"
  /\ \/ /\ jarsExists' = TRUE
        /\ inst' = [inst EXCEPT !.pc = "checksums"]
     \/ /\ inst' = [inst EXCEPT !.pc = "raised", !.error = "OSError"]
        /\ UNCHANGED jarsExists
  /\ UNCHANGED <<config, checksumFiles, checksumCache, jars, coord, dl, hist>>

\* line 204: checksum_map = _get_checksums(checksum_path)
InstGetChecksums ==
  /\ inst.pc = "checksums"
  /\ LET r == GetChecksums(checksumCache, ChecksumPath, checksumFiles[ChecksumPath],
                           REQUIRE_CHECKSUMS)
     IN /\ checksumCache' = r.cache
        /\ inst' = IF r.raised
                   THEN [inst EXCEPT !.pc = "raised", !.error = "MissingManifest"]
                   ELSE [inst EXCEPT !.pc = "loop", !.idx = 1, !.checksum_map = r.map]
  /\ UNCHANGED <<config, checksumFiles, jarsExists, jars, coord, dl, hist>>

\* lines 208-209 and 153-194: one descriptor of the loop, up to the download
InstOne ==
  /\ inst.pc = "loop"
  /\ inst.idx <= Len(depsFile)
  /\ LET p == InstallOne(RStrip(depsFile[inst.idx]), inst.checksum_map, jars,
                         REQUIRE_CHECKSUMS, FETCH_ALL_NATIVE, sysPlatform, machine)
     IN CASE p.act = "raise" ->
               /\ inst' = [inst EXCEPT !.pc = "raised", !.error = p.error]
               /\ UNCHANGED <<jars, dl, hist>>
          [] p.act \in {"skip", "reuse"} ->
               /\ inst' = [inst EXCEPT !.idx = @ + 1]
               /\ UNCHANGED <<jars, dl, hist>>
          [] OTHER ->
               /\ jars' = IF p.act = "redownload" THEN RemoveFile(jars, p.target) ELSE jars
               /\ dl' = DlCall(p.url, p.target, p.checksum)
               /\ hist' = [hist EXCEPT !.dlPre = Read(jars', p.target),
                                       !.passDl = Append(@, inst.idx)]
               /\ inst' = [inst EXCEPT !.pc = "download"]
  /\ UNCHANGED <<config, checksumFiles, checksumCache, jarsExists, coord>>

\* faulty variant of InstAfterDownload: a failed download is tried again
InstAfterDownloadRetries ==
  /\ inst.pc = "download"
  /\ dl.pc \in {"returned", "raised"}
  /\ inst' = IF dl.pc = "raised"
             THEN [inst EXCEPT !.pc = "loop"]
             ELSE [inst EXCEPT !.pc = "loop", !.idx = @ + 1]
  /\ dl' = DlIdle
  /\ UNCHANGED <<config, checksumFiles, checksumCache, jarsExists, jars, coord, hist>>

\* line 194: _download_with_verification returns or raises
InstAfterDownload ==
  /\ inst.pc = "download"
  /\ dl.pc \in {"returned", "raised"}
  /\ inst' = IF dl.pc = "raised"
             THEN [inst EXCEPT !.pc = "raised", !.error = dl.error]
             ELSE [inst EXCEPT !.pc = "loop", !.idx = @ + 1]
  /\ dl' = DlIdle
  /\ UNCHANGED <<config, checksumFiles, checksumCache, jarsExists, jars, coord, hist>>

\* end of the loop of _install_all_dependencies
InstFinish ==
  /\ inst.pc = "loop"
  /\ inst.idx > Len(depsFile)
  /\ inst' = [inst EXCEPT !.pc = "returned"]
  /\ UNCHANGED <<config, checksumFiles, checksumCache, jarsExists, jars, coord, dl, hist>>

\* --------------------------------------------------- bootstrap coordinator
\* line 261: expected_jar = jars_path / f"archery-{__version__}.jar"
ExpectedJar == FileName(<<"archery">>, VERSION, <<"jar">>)

\* faulty variant of SkipStart: force does not override the skip flag
SkipIgnoresForce(skip, f) == skip

\* line 220: SKIP_JVM_START and not force
SkipStart(skip, f) == skip /\ ~f

\* line 226: _jvm_started and jpype.isJVMStarted()
AlreadyStarted(started, running) == started /\ running

\* faulty variant of RunningOutside: a running JVM is not detected
RunningOutsideIgnored(running) == FALSE

\* line 230: jpype.isJVMStarted()
RunningOutside(running) == running

\* line 262: os.path.exists(jars_path) and not os.path.exists(expected_jar)
IsStale(exists, d) == exists /\ ~Exists(d, ExpectedJar)

\* line 268: not os.path.exists(jars_path)
NeedsInstall(exists) == ~exists

\* faulty variant of Rmtree: the files are deleted but the directory is kept
RmtreeKeepsDir(d) == [exists |-> TRUE, files |-> {}]

\* line 266: shutil.rmtree(jars_path) when it succeeds: [exists, files]
Rmtree(d) == [exists |-> FALSE, files |-> {}]

\* faulty variant of StartedAfterLaunch: the flag is set before the launch
StartedBeforeLaunch(started, ok) == TRUE

\* lines 271-272: _jvm_started after startJVM returned (ok) or raised
StartedAfterLaunch(started, ok) == IF ok THEN TRUE ELSE started

\* faulty variant of Leave: the function is left with the lock still held
LeaveHolding(t, outcome) ==
  /\ pc' = [pc EXCEPT ![t] = "idle"]
  /\ UNCHANGED lockHolder

\* the call leaves the "with _jvm_lock" block and the function
Leave(t, outcome) ==
  /\ pc' = [pc EXCEPT ![t] = "idle"]
  /\ lockHolder' = NoThread

\* history after a call finished with the given outcome
Finished(h, outcome) ==
  [h EXCEPT !.last = outcome, !.failed = @ \/ outcome = "raised"]

\* a caller invokes start_java_archery_framework(force=f); lines 220-222: the
\* skip flag
Call(t, f) ==
  /\ pc[t] = "idle"
  /\ calls < MaxCalls
  /\ calls' = calls + 1
  /\ IF SkipStart(SKIP_JVM_START, f)
     THEN /\ hist' = [Finished(hist, "skipped") EXCEPT !.force = f]
          /\ UNCHANGED pc
     ELSE /\ pc' = [pc EXCEPT ![t] = "acquire"]
          /\ hist' = [hist EXCEPT !.force = f]
  /\ UNCHANGED <<config, checksumFiles, checksumCache, jarsExists, jars, jvmStarted,
                 jvmRunning, lockHolder, inst, dl>>

\* faulty variant of Acquire: the locked section is entered without the lock
AcquireUnlocked(t) ==
  /\ pc[t] = "acquire"
  /\ lockHolder' = t
  /\ pc' = [pc EXCEPT ![t] = "locked"]
  /\ UNCHANGED <<config, checksumFiles, checksumCache, jarsExists, jars, jvmStarted,
                 jvmRunning, calls, inst, dl, hist>>

\* line 224: with _jvm_lock (blocks while another thread holds the lock)
Acquire(t) ==
  /\ pc[t] = "acquire"
  /\ lockHolder = NoThread
  /\ lockHolder' = t
  /\ pc' = [pc EXCEPT ![t] = "locked"]
  /\ UNCHANGED <<config, checksumFiles, checksumCache, jarsExists, jars, jvmStarted,
                 jvmRunning, calls, inst, dl, hist>>

\* faulty variant of Locked: neither check is made
LockedUnchecked(t) ==
  /\ pc[t] = "locked"
  /\ pc' = [pc EXCEPT ![t] = "check_stale"]
  /\ UNCHANGED <<config, checksumFiles, checksumCache, jarsExists, jars, jvmStarted,
                 jvmRunning, lockHolder, calls, inst, dl, hist>>

\* faulty variant of Locked: a call that finds the JVM started clears the flag
LockedForgets(t) ==
  /\ pc[t] = "locked"
  /\ IF AlreadyStarted(jvmStarted, jvmRunning)
     THEN /\ Leave(t, "returned")
          /\ hist' = Finished(hist, "returned")
          /\ jvmStarted' = FALSE
     ELSE IF RunningOutside(jvmRunning)
     THEN /\ jvmStarted' = TRUE
          /\ Leave(t, "returned")
          /\ hist' = Finished(hist, "returned")
     ELSE /\ pc' = [pc EXCEPT ![t] = "check_stale"]
          /\ UNCHANGED <<jvmStarted, lockHolder, hist>>
  /\ UNCHANGED <<config, checksumFiles, checksumCache, jarsExists, jars, jvmRunning,
                 calls, inst, dl>>

\* lines 226-233: the two checks made under the lock
Locked(t) ==
  /\ pc[t] = "locked"
  /\ IF AlreadyStarted(jvmStarted, jvmRunning)
     THEN /\ Leave(t, "returned")
          /\ hist' = Finished(hist, "returned")
          /\ UNCHANGED jvmStarted
     ELSE IF RunningOutside(jvmRunning)
     THEN /\ jvmStarted' = TRUE
          /\ Leave(t, "returned")
          /\ hist' = Finished(hist, "returned")
     ELSE /\ pc' = [pc EXCEPT ![t] = "check_stale"]
          /\ UNCHANGED <<jvmStarted, lockHolder, hist>>
  /\ UNCHANGED <<config, checksumFiles, checksumCache, jarsExists, jars, jvmRunning,
                 calls, inst, dl>>

\* lines 261-266: wipe a cache directory that lacks the expected jar
CheckStale(t) ==
  /\ pc[t] = "check_stale"
  /\ IF IsStale(jarsExists, jars)
     THEN \/ /\ jarsExists' = Rmtree(jars).exists
             /\ jars' = Rmtree(jars).files
             /\ pc' = [pc EXCEPT ![t] = "check_install"]
             /\ UNCHANGED <<lockHolder, hist>>
          \/ \E kept \in SUBSET jars :  \* rmtree fails part of the way
               /\ jars' = kept
               /\ Leave(t, "raised")
               /\ hist' = Finished(hist, "raised")
               /\ UNCHANGED jarsExists
     ELSE /\ pc' = [pc EXCEPT ![t] = "check_install"]
          /\ UNCHANGED <<jarsExists, jars, lockHolder, hist>>
  /\ UNCHANGED <<config, checksumFiles, checksumCache, jvmStarted, jvmRunning, calls,
                 inst, dl>>

\* lines 268-269: call the installer when the directory does not exist
CheckInstall(t) ==
  /\ pc[t] = "check_install"
  /\ IF NeedsInstall(jarsExists)
     THEN /\ inst' = [InstIdle EXCEPT !.pc = "makedirs"]
          /\ hist' = [hist EXCEPT !.passDl = <<>>]
          /\ pc' = [pc EXCEPT ![t] = "installing"]
     ELSE /\ pc' = [pc EXCEPT ![t] = "launch"]
          /\ UNCHANGED <<inst, hist>>
  /\ UNCHANGED <<config, checksumFiles, checksumCache, jarsExists, jars, jvmStarted,
                 jvmRunning, lockHolder, calls, dl>>

\* faulty variant of InstallDone: an install that raises leaves the lock held
InstallDoneKeepsLock(t) ==
  /\ pc[t] = "installing"
  /\ inst.pc \in {"returned", "raised"}
  /\ inst' = InstIdle
  /\ IF inst.pc = "raised"
     THEN /\ pc' = [pc EXCEPT ![t] = "idle"]
          /\ hist' = Finished(hist, "raised")
          /\ UNCHANGED lockHolder
     ELSE /\ pc' = [pc EXCEPT ![t] = "launch"]
          /\ UNCHANGED <<lockHolder, hist>>
  /\ UNCHANGED <<config, checksumFiles, checksumCache, jarsExists, jars, jvmStarted,
                 jvmRunning, calls, dl>>

\* line 269: _install_all_dependencies returns or raises
InstallDone(t) ==
  /\ pc[t] = "installing"
  /\ inst.pc \in {"returned", "raised"}
  /\ inst' = InstIdle
  /\ IF inst.pc = "raised"
     THEN /\ Leave(t, "raised")
          /\ hist' = Finished(hist, "raised")
     ELSE /\ pc' = [pc EXCEPT ![t] = "launch"]
          /\ UNCHANGED <<lockHolder, hist>>
  /\ UNCHANGED <<config, checksumFiles, checksumCache, jarsExists, jars, jvmStarted,
                 jvmRunning, calls, dl>>

\* lines 271-272: jpype.startJVM, which may fail, then _jvm_started = True
Launch(t) ==
  /\ pc[t] = "launch"
  /\ \/ /\ jvmRunning' = TRUE
        /\ jvmStarted' = StartedAfterLaunch(jvmStarted, TRUE)
        /\ Leave(t, "returned")
        /\ hist' = [Finished(hist, "returned") EXCEPT
                      !.launches = @ + 1, !.launchJars = Some(jars)]
     \/ /\ jvmStarted' = StartedAfterLaunch(jvmStarted, FALSE)
        /\ Leave(t, "raised")
        /\ hist' = [Finished(hist, "raised") EXCEPT !.launches = @ + 1]
        /\ UNCHANGED jvmRunning
  /\ UNCHANGED <<config, checksumFiles, checksumCache, jarsExists, jars, calls,
                 inst, dl>>

\* is_jvm_started()
IsJvmStarted == jvmRunning

\* ------------------------------------------------------------ environments
\* descriptors of the "dependencies" file
MarkerDep == <<"g", ".", "x", ":", "archery", ":", "jar", ":">> \o VERSION \o <<"\n">>
LibDep == <<"g", ":", "lib", ":", "jar", ":", "1", "\n">>
WinDep == <<"g", ":", "nat", ":", "dll", ":", "windows", "-", "x86_64", ":", "1", "\n">>
SnapDep == <<"g", ":", "nat", ":", "so", ":", "linux", "-", "x86_64", ":", "1", "-",
             "SNAPSHOT", "\n">>

DepsChoices ==
  {<<MarkerDep, LibDep>>, <<LibDep, MarkerDep>>, <<MarkerDep, WinDep, SnapDep>>}

LibJar == FileName(<<"lib">>, <<"1">>, <<"jar">>)
SnapSo == FileName(<<"nat">>, <<"1", "-", "SNAPSHOT">>, <<"so">>)
OldJar == FileName(<<"archery">>, <<"1">>, <<"jar">>)

\* body of a file left by an older install
StaleBody == <<9>>
GoodBody == <<1, 2>>

\* lines of a checksum file
SumLine(digest, filename) == digest \o <<" ">> \o filename \o <<"\n">>
GoodSum == Sha256(GoodBody)
UpperSum == <<"E", "A", "B">>
WrongSum == <<"e", "c">>

ChecksumFileChoices ==
  { None,
    Some(<<<<"#", " ", "sums", "\n">>, <<"\n">>, SumLine(GoodSum, ExpectedJar),
           SumLine(UpperSum, LibJar), <<"oops", "\n">>, SumLine(GoodSum, SnapSo)>>),
    Some(<<SumLine(GoodSum, ExpectedJar)>>),
    Some(<<SumLine(GoodSum, ExpectedJar), SumLine(WrongSum, LibJar),
           SumLine(WrongSum, SnapSo)>>) }

\* states of the cache directory a process may find: [kind, exists, files]
JarsChoices ==
  { [kind |-> "absent", exists |-> FALSE, files |-> {}],
    [kind |-> "empty", exists |-> TRUE, files |-> {}],
    [kind |-> "stale", exists |-> TRUE,
     files |-> {<<OldJar, StaleBody>>, <<LibJar, StaleBody>>}],
    [kind |-> "complete", exists |-> TRUE,
     files |-> {<<ExpectedJar, GoodBody>>, <<LibJar, GoodBody>>, <<SnapSo, GoodBody>>}],
    [kind |-> "partial", exists |-> TRUE, files |-> {<<ExpectedJar, GoodBody>>}] }

HistInit(kind) ==
  [initKind |-> kind,       \* which JarsChoices the process started from
   dlPre |-> None,          \* the target file when the current download was called
   dlPrev |-> <<"none", <<>>, <<>>>>,  \* outcome, url, target of the download before
   passDl |-> <<>>,         \* positions in the manifest of the descriptors the
                            \* downloader was called for in the latest install pass
   launches |-> 0,          \* number of jpype.startJVM invocations
   launchJars |-> None,     \* the directory the JVM was launched with
   force |-> FALSE,         \* the force argument of the latest call
   last |-> "none",         \* outcome of the call that finished last
   failed |-> FALSE,        \* some call has raised
   memoFirst |-> EmptyMap,  \* path -> mapping read by the first call since a clear
   memoRet |-> <<"none", None>>,  \* path and result of the _get_checksums call just made
   memoRaised |-> {},       \* paths for which a _get_checksums call raised since a clear
   loadRet |-> None,        \* result of the _load_checksums call just made
   archRet |-> None,        \* classifier and result of the call just made, if it was
                            \* _arch_matches_platform
   resolveRet |-> None]     \* descriptor, checksum map and outcome of the call just
                            \* made, if it was _install_one_dependency

\* the process is at rest: no call in progress, nothing cached
AtRest ==
  /\ checksumCache = EmptyMap
  /\ jvmStarted = FALSE
  /\ jvmRunning = FALSE
  /\ lockHolder = NoThread
  /\ pc = [t \in Threads |-> "idle"]
  /\ calls = 0
  /\ inst = InstIdle
  /\ dl = DlIdle

\* ------------------------------------------------- the bootstrap, threaded
Init ==
  /\ SKIP_JVM_START \in BOOLEAN
  /\ REQUIRE_CHECKSUMS \in BOOLEAN
  /\ FETCH_ALL_NATIVE = FALSE
  /\ sysPlatform = <<"linux">>
  /\ machine = <<"x86_64">>
  /\ depsFile \in DepsChoices
  /\ \E f \in ChecksumFileChoices : checksumFiles = [p \in Paths |-> f]
  /\ checksumCache = EmptyMap
  /\ \E j \in JarsChoices :
       /\ jarsExists = j.exists
       /\ jars = j.files
       /\ hist = HistInit(j.kind)
  /\ jvmStarted = FALSE
  /\ jvmRunning \in BOOLEAN
  /\ lockHolder = NoThread
  /\ pc = [t \in Threads |-> "idle"]
  /\ calls = 0
  /\ inst = InstIdle
  /\ dl = DlIdle

Next ==
  \/ \E t \in Threads : \E f \in BOOLEAN : Call(t, f)
  \/ \E t \in Threads : Acquire(t)
  \/ \E t \in Threads : Locked(t)
  \/ \E t \in Threads : CheckStale(t)
  \/ \E t \in Threads : CheckInstall(t)
  \/ \E t \in Threads : InstallDone(t)
  \/ \E t \in Threads : Launch(t)
  \/ InstMakedirs
  \/ InstGetChecksums
  \/ InstOne
  \/ InstAfterDownload
  \/ InstFinish
  \/ DlMkstemp
  \/ DlGet
  \/ DlStatus
  \/ DlWrite
  \/ DlVerify
  \/ DlReplace
  \/ DlExcept

Spec == Init /\ [][Next]_vars

\* every step but the arrival of a new call: a thread inside
\* start_java_archery_framework keeps running, a caller need not call
Progress ==
  \/ \E t \in Threads : Acquire(t)
  \/ \E t \in Threads : Locked(t)
  \/ \E t \in Threads : CheckStale(t)
  \/ \E t \in Threads : CheckInstall(t)
  \/ \E t \in Threads : InstallDone(t)
  \/ \E t \in Threads : Launch(t)
  \/ InstMakedirs
  \/ InstGetChecksums
  \/ InstOne
  \/ InstAfterDownload
  \/ InstFinish
  \/ DlMkstemp
  \/ DlGet
  \/ DlStatus
  \/ DlWrite
  \/ DlVerify
  \/ DlReplace
  \/ DlExcept

\* environments in which the wipe, the install and the launch can each fail
\* or succeed
InitLive ==
  /\ SKIP_JVM_START = FALSE
  /\ REQUIRE_CHECKSUMS = FALSE
  /\ FETCH_ALL_NATIVE = FALSE
  /\ sysPlatform = <<"linux">>
  /\ machine = <<"x86_64">>
  /\ depsFile = <<MarkerDep>>
  /\ checksumFiles = [p \in Paths |-> Some(<<SumLine(GoodSum, ExpectedJar)>>)]
  /\ \E j \in {k \in JarsChoices : k.kind = "stale"} :
       /\ jarsExists = j.exists
       /\ jars = j.files
       /\ hist = HistInit(j.kind)
  /\ AtRest

\* the bootstrap with threads that are scheduled while they can run
SpecLive == InitLive /\ [][Next]_vars /\ WF_vars(Progress)

\* ------------------------------------- the downloader called on its own
DlUrls ==
  {Url(MAVEN_URL, <<"g">>, <<"lib">>, <<"1">>, LibJar),
   Url(MAVEN_URL, <<"g", ".", "x">>, <<"archery">>, VERSION, ExpectedJar)}
DlTargets == {LibJar, ExpectedJar}
DlChecksums == {None, Some(GoodSum), Some(UpperSum), Some(WrongSum)}

\* a caller invokes _download_with_verification(url, target, checksum)
DirectDownload(url, target, checksum) ==
  /\ DlDone
  /\ dl' = DlCall(url, target, checksum)
  /\ hist' = [hist EXCEPT !.dlPre = Read(jars, target),
                          !.dlPrev = <<IF dl.pc = "returned" THEN "ok" ELSE dl.error,
                                       dl.url, dl.target>>]
  /\ UNCHANGED <<config, checksumFiles, checksumCache, jarsExists, jars, coord, inst>>

InitDownload ==
  /\ SKIP_JVM_START = FALSE
  /\ REQUIRE_CHECKSUMS = FALSE
  /\ FETCH_ALL_NATIVE = FALSE
  /\ sysPlatform = <<"linux">>
  /\ machine = <<"x86_64">>
  /\ depsFile = <<>>
  /\ checksumFiles = [p \in Paths |-> None]
  /\ checksumCache = EmptyMap
  /\ jarsExists = TRUE
  /\ jars \in {{}, {<<LibJar, StaleBody>>}, {<<LibJar, GoodBody>>, <<ExpectedJar, <<1>>>>}}
  /\ hist = HistInit("direct")
  /\ jvmStarted = FALSE
  /\ jvmRunning = FALSE
  /\ lockHolder = NoThread
  /\ pc = [t \in Threads |-> "idle"]
  /\ calls = 0
  /\ inst = InstIdle
  /\ dl = DlIdle

NextDownload ==
  \/ \E url \in DlUrls : \E target \in DlTargets : \E checksum \in DlChecksums :
       DirectDownload(url, target, checksum)
  \/ DlMkstemp
  \/ DlGet
  \/ DlStatus
  \/ DlWrite
  \/ DlVerify
  \/ DlReplace
  \/ DlExcept

SpecDownload == InitDownload /\ [][NextDownload]_vars

\* --------------------------------------- the checksum registry on its own
\* a caller invokes _get_checksums(path)
MemoGet(path) ==
  LET r == GetChecksums(checksumCache, path, checksumFiles[path], REQUIRE_CHECKSUMS)
      read == LoadChecksums(checksumFiles[path], REQUIRE_CHECKSUMS)
  IN /\ checksumCache' = r.cache
     /\ hist' = [hist EXCEPT
                   !.memoRet = <<path, IF r.raised THEN None ELSE Some(r.map)>>,
                   !.memoRaised = IF r.raised THEN @ \cup {path} ELSE @,
                   !.memoFirst = IF HasKey(@, path) \/ read.raised THEN @
                                 ELSE MapPut(@, path, read.map)]
     /\ UNCHANGED <<config, checksumFiles, jarsExists, jars, coord, inst, dl>>

\* the manifest file at path is rewritten, created or deleted
RewriteFile(path, file) ==
  /\ checksumFiles[path] # file
  /\ checksumFiles' = [checksumFiles EXCEPT ![path] = file]
  /\ hist' = [hist EXCEPT !.memoRet = <<"none", None>>]
  /\ UNCHANGED <<config, checksumCache, jarsExists, jars, coord, inst, dl>>

\* _get_checksums.cache_clear()
CacheClear ==
  /\ checksumCache' = EmptyMap
  /\ hist' = [hist EXCEPT !.memoFirst = EmptyMap, !.memoRet = <<"none", None>>,
                          !.memoRaised = {}]
  /\ UNCHANGED <<config, checksumFiles, jarsExists, jars, coord, inst, dl>>

InitMemo ==
  /\ SKIP_JVM_START = FALSE
  /\ REQUIRE_CHECKSUMS \in BOOLEAN
  /\ FETCH_ALL_NATIVE = FALSE
  /\ sysPlatform = <<"linux">>
  /\ machine = <<"x86_64">>
  /\ depsFile = <<>>
  /\ checksumFiles \in [Paths -> ChecksumFileChoices]
  /\ checksumCache = EmptyMap
  /\ jarsExists = FALSE
  /\ jars = {}
  /\ hist = HistInit("memo")
  /\ jvmStarted = FALSE
  /\ jvmRunning = FALSE
  /\ lockHolder = NoThread
  /\ pc = [t \in Threads |-> "idle"]
  /\ calls = 0
  /\ inst = InstIdle
  /\ dl = DlIdle

NextMemo ==
  \/ \E path \in Paths : MemoGet(path)
  \/ \E path \in Paths : \E file \in ChecksumFileChoices : RewriteFile(path, file)
  \/ CacheClear

SpecMemo == InitMemo /\ [][NextMemo]_vars

\* ------------------------------------------ the checksum loader on its own
\* lines a checksum file is made of
ManifestLines ==
  { <<" ", "\n">>,
    <<" ", "#", "e", " ", "f", ".", "jar", "\n">>,
    <<"e", "a", " ", "f", ".", "jar", "\n">>,
    <<" ", "E", "B", " ", " ", "f", ".", "jar", " ", "\n">>,
    <<"e", "a", "\n">>,
    <<"z", "z", " ", "g", ".", "jar", "\n">> }

\* the checksum files of at most MaxLines lines
ManifestChoices ==
  {None} \cup {Some(f) : f \in UNION {[1..n -> ManifestLines] : n \in 0..MaxLines}}

\* a caller invokes _load_checksums(path)
LoadCall(path) ==
  /\ hist' = [hist EXCEPT
                !.loadRet = Some(LoadChecksums(checksumFiles[path], REQUIRE_CHECKSUMS))]
  /\ UNCHANGED <<config, checksumFiles, checksumCache, jarsExists, jars, coord, inst, dl>>

InitLoad ==
  /\ SKIP_JVM_START = FALSE
  /\ REQUIRE_CHECKSUMS \in BOOLEAN
  /\ FETCH_ALL_NATIVE = FALSE
  /\ sysPlatform = <<"linux">>
  /\ machine = <<"x86_64">>
  /\ depsFile = <<>>
  /\ \E f \in ManifestChoices : checksumFiles = [p \in Paths |-> f]
  /\ jarsExists = FALSE
  /\ jars = {}
  /\ hist = HistInit("load")
  /\ AtRest

NextLoad == \E path \in Paths : LoadCall(path)

SpecLoad == InitLoad /\ [][NextLoad]_vars

\* ------------------------------------------- the artifact resolver on its own
\* values of sys.platform and platform.machine()
PlatformChoices == {<<"linux">>, <<"darwin">>, <<"win", "32">>, <<"freebsd", "13">>}
MachineChoices == {<<"x86_64">>, <<"AMD64">>, <<"arm64">>}

\* classifiers: an operating system name, then a machine name or nothing
ArchChoices ==
  {<<os, "-", m>> : os \in {"linux", "LINUX", "osx", "macos", "windows", "win", "solaris"},
                    m \in {"x86_64", "amd64", "AMD64", "arm64"}}
    \cup {<<"linux">>, <<"windows">>, <<"osx">>}

\* descriptors by field: n is the number of fields (arch is used when n = 5)
DescChoices ==
  {d \in [n : {4, 5}, package : {<<"g", ".", "x">>}, name : {<<"nat">>},
          extension : {<<"so">>},
          arch : {<<>>, <<"linux", "-", "x86_64">>, <<"windows", "-", "amd64">>,
                  <<"osx", "-", "arm64">>},
          version : {<<"1">>, <<"1", "-", "SNAPSHOT">>, <<"2", ".", "0">>}] :
     d.n = 4 => d.arch = <<>>}

\* the line of the dependencies file a descriptor is written as
DepText(d) ==
  d.package \o <<":">> \o d.name \o <<":">> \o d.extension \o <<":">>
    \o (IF d.n = 5 THEN d.arch \o <<":">> ELSE <<>>) \o d.version

\* checksum maps: any of these entries
MapChoices ==
  SUBSET {<<SnapSo, GoodSum>>,
          <<<<"nat", "-", "1", "-", "linux", "-", "x86_64", ".", "so">>, WrongSum>>,
          <<<<"nat", "-", "1", ".", "so">>, UpperSum>>}

\* a caller invokes _arch_matches_platform(arch)
ArchCall(arch) ==
  /\ hist' = [hist EXCEPT
                !.archRet = Some(<<arch, ArchMatchesPlatform(arch, FETCH_ALL_NATIVE,
                                                             sysPlatform, machine)>>),
                !.resolveRet = None]
  /\ UNCHANGED <<config, checksumFiles, checksumCache, jarsExists, jars, coord, inst, dl>>

\* a caller invokes _install_one_dependency(jars_path, dep, checksum_map) up to
\* the decision of line 179
ResolveCall(d, m) ==
  /\ hist' = [hist EXCEPT
                !.resolveRet =
                  Some([desc |-> d, map |-> m,
                        plan |-> InstallOne(DepText(d), m, jars, REQUIRE_CHECKSUMS,
                                            FETCH_ALL_NATIVE, sysPlatform, machine)]),
                !.archRet = None]
  /\ UNCHANGED <<config, checksumFiles, checksumCache, jarsExists, jars, coord, inst, dl>>

InitResolve ==
  /\ SKIP_JVM_START = FALSE
  /\ REQUIRE_CHECKSUMS = FALSE
  /\ FETCH_ALL_NATIVE \in BOOLEAN
  /\ sysPlatform \in PlatformChoices
  /\ machine \in MachineChoices
  /\ depsFile = <<>>
  /\ checksumFiles = [p \in Paths |-> None]
  /\ jarsExists = TRUE
  /\ jars = {}
  /\ hist = HistInit("resolve")
  /\ AtRest

NextResolve ==
  \/ \E arch \in ArchChoices : ArchCall(arch)
  \/ \E d \in DescChoices : \E m \in MapChoices : ResolveCall(d, m)

SpecResolve == InitResolve /\ [][NextResolve]_vars

\* ---------------------------------------------- the installer called on its own
\* a caller invokes _install_all_dependencies(jars_path, deps_path, checksum_path)
DirectInstall ==
  /\ inst.pc \in {"idle", "returned", "raised"}
  /\ DlDone
  /\ inst' = [InstIdle EXCEPT !.pc = "makedirs"]
  /\ hist' = [hist EXCEPT !.passDl = <<>>]
  /\ UNCHANGED <<config, checksumFiles, checksumCache, jarsExists, jars, coord, dl>>

InitInstall ==
  /\ SKIP_JVM_START = FALSE
  /\ REQUIRE_CHECKSUMS \in BOOLEAN
  /\ FETCH_ALL_NATIVE = FALSE
  /\ sysPlatform = <<"linux">>
  /\ machine = <<"x86_64">>
  /\ depsFile \in DepsChoices
  /\ \E f \in ChecksumFileChoices : checksumFiles = [p \in Paths |-> f]
  /\ \E j \in JarsChoices :
       /\ jarsExists = j.exists
       /\ jars = j.files
       /\ hist = HistInit(j.kind)
  /\ AtRest

NextInstall ==
  \/ DirectInstall
  \/ InstMakedirs
  \/ InstGetChecksums
  \/ InstOne
  \/ InstAfterDownload
  \/ InstFinish
  \/ DlMkstemp
  \/ DlGet
  \/ DlStatus
  \/ DlWrite
  \/ DlVerify
  \/ DlReplace
  \/ DlExcept

SpecInstall == InitInstall /\ [][NextInstall]_vars

\* ================================================================ properties
\* the JVM runs without the coordinator having launched it
ExternalRuntime == jvmRunning /\ IsNone(hist.launchJars)

\* thread t finishes in this step a call that went for the lock
Finishes(t, outcome) ==
  /\ pc[t] # "idle"
  /\ pc'[t] = "idle"
  /\ hist'.last = outcome

\* local file names of the descriptors of the dependencies file that apply to
\* this platform
RequiredJars ==
  LET r(i) == Resolve(RStrip(depsFile[i]), FETCH_ALL_NATIVE, sysPlatform, machine)
  IN {r(i).file_name_disk : i \in {j \in 1..Len(depsFile) : r(j).kind = "ok"}}

\* C1: with the skip flag unset, no call raising and no JVM started outside the
\* coordinator, jpype.startJVM has been invoked at most once however the
\* callers interleave, and once any caller has returned it has been invoked
\* exactly once and is_jvm_started() is true.
C1_LaunchedExactlyOnce ==
  (~SKIP_JVM_START /\ ~hist.failed /\ ~ExternalRuntime) =>
    /\ hist.launches <= 1
    /\ hist.last # "none" => (IsJvmStarted /\ hist.launches = 1)

C1_Witness ==
  /\ ~SKIP_JVM_START /\ ~hist.failed /\ ~ExternalRuntime
  /\ hist.initKind = "absent"
  /\ hist.launches = 1
  /\ hist.last = "returned"
  /\ calls = MaxCalls
  /\ \A t \in Threads : pc[t] = "idle"

\* C2: a call that raises (the wipe, the install or the launch failed) leaves
\* _jvm_started false and the JVM not running, and a call that reaches the
\* checks under the lock in that state goes on to the stale-cache check
\* instead of returning as already started.
C2_FailureLeavesNotStarted ==
  [][\A t \in Threads :
       /\ Finishes(t, "raised") => (~jvmStarted' /\ ~jvmRunning')
       /\ (pc[t] = "locked" /\ ~jvmStarted /\ ~jvmRunning /\ pc'[t] # "locked")
            => pc'[t] = "check_stale"]_vars

C2_Witness ==
  /\ hist.last = "raised"
  /\ ~jvmStarted
  /\ \E t \in Threads : lockHolder = t /\ pc[t] = "installing"

\* C3: after a failed bootstrap no final path holds a partial file, and the JVM
\* is never launched with a platform-applicable artifact of the dependencies
\* file missing from the cache directory (the cache the process found being
\* absent, empty, stale or complete).
C3_RetryLaunchesComplete ==
  /\ hist.initKind \in {"absent", "empty"} =>
       \A f \in jars : f[1] = TmpName \/ f[2] = GoodBody
  /\ (hist.initKind \in {"absent", "empty", "stale", "complete"}
      /\ ~IsNone(hist.launchJars))
       => RequiredJars \subseteq Names(Val(hist.launchJars))

\* C4: a cache directory that exists without the expected jar is deleted whole
\* before the install decision: past the stale check the directory is absent
\* or holds the expected jar, the installer starts from no directory and an
\* empty one after makedirs, and no file of a stale cache is in the directory
\* during the reinstall or at the launch.
C4_StaleCacheWiped ==
  /\ \A t \in Threads :
       pc[t] = "check_install" => (jarsExists => Exists(jars, ExpectedJar))
  /\ inst.pc = "makedirs" => (~jarsExists /\ jars = {})
  /\ inst.pc = "checksums" => jars = {}
  /\ hist.initKind = "stale" =>
       /\ (\E t \in Threads : pc[t] \in {"check_install", "installing", "launch"})
            => \A f \in jars : f[2] # StaleBody
       /\ ~IsNone(hist.launchJars) => \A f \in Val(hist.launchJars) : f[2] # StaleBody

C4_Witness ==
  /\ hist.initKind = "stale"
  /\ ~IsNone(hist.launchJars)
  /\ Read(Val(hist.launchJars), LibJar) = Some(GoodBody)
  /\ ~Exists(Val(hist.launchJars), OldJar)

\* C5: while _jvm_started is true and the JVM runs, no step of any call changes
\* the cache directory, the installer, the downloader, the checksum cache, the
\* two flags or the number of launches, and every call that finishes returns.
C5_StartedIsNoOp ==
  [][(jvmStarted /\ jvmRunning) =>
       /\ UNCHANGED <<jarsExists, jars, jvmStarted, jvmRunning, inst, dl, checksumCache>>
       /\ hist'.launches = hist.launches
       /\ hist'.launchJars = hist.launchJars
       /\ \A t \in Threads : ~Finishes(t, "raised")]_vars

C5_Witness ==
  /\ ~SKIP_JVM_START /\ ~hist.failed /\ ~ExternalRuntime
  /\ jvmStarted /\ jvmRunning
  /\ hist.launches = 1
  /\ hist.last = "returned"
  /\ calls >= 2
  /\ \A t \in Threads : pc[t] = "idle"
  /\ jars = Val(hist.launchJars)

\* C6: a call that finds the JVM running with _jvm_started false sets
\* _jvm_started, returns and releases the lock, and changes neither the cache
\* directory nor the installer, downloader or checksum cache, and does not
\* invoke startJVM.
C6_ExternalRuntimeAdopted ==
  [][\A t \in Threads :
       (pc[t] = "locked" /\ ~jvmStarted /\ jvmRunning /\ pc'[t] # "locked") =>
         /\ jvmStarted'
         /\ Finishes(t, "returned")
         /\ pc'[t] = "idle"
         /\ lockHolder' = NoThread
         /\ UNCHANGED <<jarsExists, jars, jvmRunning, inst, dl, checksumCache>>
         /\ hist'.launches = hist.launches]_vars

C6_Witness ==
  /\ jvmStarted /\ jvmRunning
  /\ hist.launches = 0
  /\ hist.initKind = "stale"
  /\ jars = {<<OldJar, StaleBody>>, <<LibJar, StaleBody>>}
  /\ calls = 1
  /\ hist.last = "returned"
  /\ \A t \in Threads : pc[t] = "idle"

\* C7: a call made with the skip flag set and force false returns at once: it
\* does not take the lock and changes neither the cache directory, the two
\* flags, the installer, the downloader nor the number of launches; any other
\* call goes on to acquire the lock.
C7_SkipIsNoOp ==
  [][calls' # calls =>
       IF SKIP_JVM_START /\ ~hist'.force
       THEN /\ hist'.last = "skipped"
            /\ UNCHANGED <<pc, lockHolder, jarsExists, jars, jvmStarted, jvmRunning,
                           inst, dl, checksumCache>>
            /\ hist'.launches = hist.launches
       ELSE /\ \E t \in Threads : pc[t] = "idle" /\ pc'[t] = "acquire"
            /\ hist'.last = hist.last]_vars

C7_Witness ==
  /\ SKIP_JVM_START
  /\ ~ExternalRuntime /\ jvmStarted /\ hist.launches = 1
  /\ calls = 2
  /\ hist.last = "skipped"
  /\ ~hist.force

\* C8: until _download_with_verification returns, the target file is what it
\* was when the call was made, and once the call has raised the temporary
\* file does not exist.
C8_FailureLeavesTarget ==
  /\ dl.pc \notin {"idle", "returned"} => Read(jars, dl.target) = hist.dlPre
  /\ dl.pc = "raised" => ~Exists(jars, TmpName)

C8_Witness ==
  /\ dl.pc = "raised"
  /\ dl.error = "StreamError"
  /\ dl.written = 1
  /\ hist.dlPre = Some(StaleBody)

\* C9: with a checksum supplied, a download that returned left at the target a
\* file whose SHA-256 digest equals the checksum up to letter case; a checksum
\* mismatch is raised only when the digest of the served body differs from the
\* checksum up to letter case, and it leaves a target that was absent absent.
C9_ChecksumGate ==
  /\ (dl.pc = "returned" /\ Truthy(dl.checksum)) =>
       Lower(Sha256(Val(Read(jars, dl.target)))) = Lower(Val(dl.checksum))
  /\ (dl.pc \in {"except", "raised"} /\ dl.error = "ChecksumMismatch") =>
       /\ Lower(Sha256(ServerBody(dl.url))) # Lower(Val(dl.checksum))
       /\ IsNone(hist.dlPre) => ~Exists(jars, dl.target)

C9_Witness ==
  /\ dl.pc = "returned"
  /\ hist.dlPrev = <<"ChecksumMismatch", dl.url, dl.target>>
  /\ IsNone(hist.dlPre)
  /\ dl.checksum = Some(UpperSum)
  /\ Read(jars, dl.target) = Some(GoodBody)

\* C10: a _get_checksums(path) call that returns gives the mapping that the
\* first call for that path since the last cache_clear() (or since the start)
\* read from the file, whatever the file holds now.
C10_Memoized ==
  ~IsNone(hist.memoRet[2]) => MapGet(hist.memoFirst, hist.memoRet[1]) = hist.memoRet[2]

C10_Witness ==
  /\ ~IsNone(hist.memoRet[2])
  /\ Val(hist.memoRet[2]) = {<<ExpectedJar, GoodSum>>}
  /\ LoadChecksums(checksumFiles[hist.memoRet[1]], REQUIRE_CHECKSUMS).map
       # Val(hist.memoRet[2])
  /\ checksumCache # EmptyMap

\* a hexadecimal digit
IsHexTok(t) ==
  t \in {"0", "1", "2", "3", "4", "5", "6", "7", "8", "9",
         "a", "b", "c", "d", "e", "f", "A", "B", "C", "D", "E", "F"}

\* the line has the form <hex> <filename> and is neither blank nor a comment
WellFormedLine(raw) ==
  LET line == Strip(raw) IN
    /\ line # <<>>
    /\ line[1] # "#"
    /\ Len(SplitFirst(line)) = 2
    /\ \A i \in 1..Len(SplitFirst(line)[1]) : IsHexTok(SplitFirst(line)[1][i])

\* the entry <<filename, digest>> a well-formed line stands for
LineEntry(raw) == <<SplitFirst(Strip(raw))[2], SplitFirst(Strip(raw))[1]>>

\* C11: _load_checksums of an existing file does not raise, every entry of the
\* mapping it returns is the filename -> digest of a well-formed line (<hex>
\* <filename>, neither blank nor comment), and every well-formed line has its
\* filename in the mapping; any other line contributes no entry.
C11_OnlyWellFormedLines ==
  LET file == checksumFiles[ChecksumPath] IN
    (~IsNone(hist.loadRet) /\ ~IsNone(file)) =>
      LET lines == Val(file)
          good == {i \in 1..Len(lines) : WellFormedLine(lines[i])}
      IN /\ ~Val(hist.loadRet).raised
         /\ \A e \in Val(hist.loadRet).map : \E i \in good : e = LineEntry(lines[i])
         /\ \A i \in good : HasKey(Val(hist.loadRet).map, LineEntry(lines[i])[1])

\* C12: a _get_checksums(path) call that finds nothing cached loads the file: a
\* missing file gives the empty mapping when REQUIRE_CHECKSUMS is unset and
\* raises when it is set; the raising call leaves the cache as it was, with no
\* entry for the path, and a call that finds the file present and nothing
\* cached returns what the file holds and caches it.
C12_MissingManifest ==
  [][\A p \in Paths :
       hist'.memoRet[1] = p =>
         LET file == checksumFiles[p]
             miss == ~HasKey(checksumCache, p)
             ret == hist'.memoRet[2]
         IN /\ (miss /\ IsNone(file) /\ ~REQUIRE_CHECKSUMS) => ret = Some(EmptyMap)
            /\ (miss /\ IsNone(file) /\ REQUIRE_CHECKSUMS) =>
                 (IsNone(ret) /\ checksumCache' = checksumCache)
            /\ (miss /\ ~IsNone(file)) =>
                 (ret = Some(LoadLines(EmptyMap, Val(file))) /\ HasKey(checksumCache', p))
            /\ IsNone(ret) => (IsNone(file) /\ REQUIRE_CHECKSUMS /\ miss)]_vars

C12_Witness ==
  /\ REQUIRE_CHECKSUMS
  /\ hist.memoRet = <<ChecksumPath, Some({<<ExpectedJar, GoodSum>>})>>
  /\ ChecksumPath \in hist.memoRaised
  /\ HasKey(checksumCache, ChecksumPath)

\* operating system family of a sys.platform value
OsFamily(system) ==
  IF system[1] = "linux" THEN "Linux"
  ELSE IF system = <<"darwin">> THEN "macOS"
  ELSE IF system[1] = "win" THEN "Windows"
  ELSE "other"

\* operating system family a classifier names by its first word
ArchFamily(arch) ==
  IF arch = <<>> THEN "none"
  ELSE IF Lower(arch)[1] = "linux" THEN "Linux"
  ELSE IF Lower(arch)[1] \in {"osx", "macos"} THEN "macOS"
  ELSE IF Lower(arch)[1] \in {"windows", "win"} THEN "Windows"
  ELSE "other"

\* C13: _arch_matches_platform(arch) is true whatever the classifier when
\* FETCH_ALL_NATIVE is set; otherwise it is true for <os>-<machine> with <os> a
\* name of the running family (Linux, macOS, Windows) and <machine> the running
\* machine, letter case apart, and false for a classifier that names another
\* of the three families.
C13_PlatformMatches ==
  ~IsNone(hist.archRet) =>
    LET arch == Val(hist.archRet)[1]
        res == Val(hist.archRet)[2]
    IN /\ FETCH_ALL_NATIVE => res
       /\ (~FETCH_ALL_NATIVE /\ Len(arch) = 3 /\ OsFamily(sysPlatform) # "other"
           /\ ArchFamily(arch) = OsFamily(sysPlatform)
           /\ Lower(<<arch[3]>>) = Lower(machine)) => res
       /\ (~FETCH_ALL_NATIVE /\ ArchFamily(arch) \in {"Linux", "macOS", "Windows"}
           /\ ArchFamily(arch) # OsFamily(sysPlatform)) => ~res

C13_Witness ==
  /\ ~FETCH_ALL_NATIVE
  /\ sysPlatform = <<"win", "32">>
  /\ machine = <<"AMD64">>
  /\ hist.archRet = Some(<<<<"windows", "-", "amd64">>, TRUE>>)

\* the version ends with the Maven snapshot qualifier "-SNAPSHOT"
IsSnapshotVersion(v) == Len(v) >= 2 /\ SubSeq(v, Len(v) - 1, Len(v)) = <<"-", "SNAPSHOT">>

\* the version without that qualifier
ReleaseVersion(v) == IF IsSnapshotVersion(v) THEN SubSeq(v, 1, Len(v) - 2) ELSE v

\* the last Len(t) elements of s are t, after a "/"
EndsWithFile(s, t) ==
  /\ Len(s) > Len(t)
  /\ SubSeq(s, Len(s) - Len(t), Len(s)) = <<"/">> \o t

\* C14: a descriptor that is neither skipped nor rejected resolves, by its
\* fields, to: 4 fields -> remote = local = name-version.ext under MAVEN_URL;
\* 5 fields with a snapshot version -> remote = name-<version without
\* -SNAPSHOT>-arch.ext, local = name-version.ext, the two different, under
\* MAVEN_SNAPSHOT_URL; 5 fields otherwise -> remote = local =
\* name-version-arch.ext under MAVEN_URL; and the expected checksum is the
\* map's entry for the local name when there is one, else its entry for the
\* remote name.
C14_Resolution ==
  (~IsNone(hist.resolveRet) /\ Val(hist.resolveRet).plan.act \notin {"skip", "raise"}) =>
    LET d == Val(hist.resolveRet).desc
        m == Val(hist.resolveRet).map
        p == Val(hist.resolveRet).plan
        snap == d.n = 5 /\ IsSnapshotVersion(d.version)
        plain == d.name \o <<"-">> \o d.version \o <<".">> \o d.extension
        native == d.name \o <<"-">> \o ReleaseVersion(d.version) \o <<"-">> \o d.arch
                    \o <<".">> \o d.extension
        local == IF d.n = 4 \/ snap THEN plain ELSE native
        remote == IF d.n = 4 THEN plain ELSE native
        base == IF snap THEN MAVEN_SNAPSHOT_URL ELSE MAVEN_URL
    IN /\ p.target = local
       /\ StartsWith(p.url, base \o <<"/">>)
       /\ EndsWithFile(p.url, remote)
       /\ snap => local # remote
       /\ p.checksum = IF HasKey(m, local) THEN MapGet(m, local) ELSE MapGet(m, remote)

C14_Witness ==
  /\ ~IsNone(hist.resolveRet)
  /\ ~FETCH_ALL_NATIVE
  /\ sysPlatform = <<"linux">>
  /\ Val(hist.resolveRet).desc.n = 5
  /\ Val(hist.resolveRet).desc.arch = <<"linux", "-", "x86_64">>
  /\ Val(hist.resolveRet).desc.version = <<"1", "-", "SNAPSHOT">>
  /\ Cardinality(Val(hist.resolveRet).map) = 3
  /\ Val(hist.resolveRet).plan.act = "download"
  /\ Val(hist.resolveRet).plan.target = SnapSo
  /\ Val(hist.resolveRet).plan.checksum = Some(GoodSum)

\* the descriptor the installer loop is at, resolved
CurrentDep == Resolve(RStrip(depsFile[inst.idx]), FETCH_ALL_NATIVE, sysPlatform, machine)

\* the checksum available for it
CurrentChecksum ==
  ExpectedChecksum(inst.checksum_map, CurrentDep.file_name_disk, CurrentDep.file_name)

\* the installer loop handles a descriptor that is not skipped in this step
HandlesDep ==
  /\ inst.pc = "loop"
  /\ inst.idx <= Len(depsFile)
  /\ inst' # inst
  /\ CurrentDep.kind = "ok"

\* this step calls the downloader for the current descriptor, once
IssuesDownload ==
  /\ dl.pc = "idle"
  /\ dl'.pc = "mkstemp"
  /\ dl'.target = CurrentDep.file_name_disk
  /\ dl'.checksum = CurrentChecksum
  /\ inst'.pc = "download"

\* this step keeps the directory and calls no downloader
NoDownload == dl' = dl /\ jars' = jars

\* what the installer does with a target that exists (lines 179-188)
ExistingHandled ==
  LET target == CurrentDep.file_name_disk IN
    Exists(jars, target) =>
      IF Truthy(CurrentChecksum)
      THEN IF Lower(Sha256(Val(Read(jars, target)))) = Lower(Val(CurrentChecksum))
           THEN NoDownload
           ELSE ~Exists(jars', target) /\ IssuesDownload
      ELSE NoDownload

\* C15 as stated: an existing target is reused when its digest matches the
\* checksum or when there is no checksum, deleted and downloaded again when the
\* digest differs; a target that does not exist is downloaded.
C15_AsStated ==
  [][HandlesDep =>
       /\ ExistingHandled
       /\ ~Exists(jars, CurrentDep.file_name_disk) => IssuesDownload]_vars

\* C15: as above, except that a descriptor with no checksum while
\* REQUIRE_CHECKSUMS is set is rejected with MissingChecksum, whether its target
\* exists or not, without a download and with the directory unchanged; every
\* other descriptor whose target does not exist is downloaded, once.
C15_ExistingFiles ==
  [][HandlesDep =>
       /\ ExistingHandled
       /\ IF IsNone(CurrentChecksum) /\ REQUIRE_CHECKSUMS
          THEN NoDownload /\ inst'.pc = "raised" /\ inst'.error = "MissingChecksum"
          ELSE ~Exists(jars, CurrentDep.file_name_disk) => IssuesDownload]_vars

C15_Witness ==
  /\ hist.initKind = "stale"
  /\ inst.pc = "download"
  /\ dl.pc = "mkstemp"
  /\ dl.target = LibJar
  /\ dl.checksum = Some(UpperSum)
  /\ ~Exists(jars, LibJar)
  /\ Exists(jars, OldJar)

\* C16: when _install_all_dependencies, called by the coordinator on an absent
\* directory, has raised MissingChecksum, that call has installed no artifact:
\* the directory it created is empty.
C16_AllOrNothing ==
  (inst.pc = "raised" /\ inst.error = "MissingChecksum") => jars = {}

\* positions of start_java_archery_framework inside "with _jvm_lock"
InSection(t) == pc[t] \in {"locked", "check_stale", "check_install", "installing", "launch"}

\* C17: _jvm_lock is held exactly by a thread inside the locked section, so it
\* is free whenever no call is in progress and after every return or raise, and
\* no call waits for the lock forever: again and again no thread is waiting.
C17_LockReleased ==
  /\ [](\A t \in Threads : lockHolder = t <=> InSection(t))
  /\ []<>(\A t \in Threads : pc[t] # "acquire")

C17_Witness ==
  /\ hist.failed
  /\ hist.last = "raised"
  /\ hist.launches = 1
  /\ \E t \in Threads : lockHolder = t /\ pc[t] = "locked"

\* C18: a call of start_java_archery_framework made while _jvm_started is true
\* does not go for _jvm_lock: it never reaches line 224.
C18_StartedWithoutLock ==
  [][\A t \in Threads :
       (jvmStarted /\ pc[t] = "idle") => pc'[t] # "acquire"]_vars

\* C19: no step makes _jvm_started false again, and a step that makes it true
\* is the return of a call that either launched the JVM with success or found
\* it running under the lock.
C19_StartedMonotonic ==
  [][/\ jvmStarted => jvmStarted'
     /\ (~jvmStarted /\ jvmStarted') =>
          \E t \in Threads :
            /\ pc'[t] = "idle"
            /\ hist'.last = "returned"
            /\ \/ /\ pc[t] = "launch"
                  /\ ~jvmRunning /\ jvmRunning'
                  /\ hist'.launches = hist.launches + 1
               \/ /\ pc[t] = "locked"
                  /\ jvmRunning /\ jvmRunning'
                  /\ hist'.launches = hist.launches]_vars

C19_Witness ==
  /\ SKIP_JVM_START
  /\ jvmStarted
  /\ hist.initKind = "stale"
  /\ hist.failed
  /\ hist.launches = 2
  /\ hist.last = "skipped"
  /\ calls = MaxCalls

\* the adapter got a response with status s to the GET of this step
Responded(s) ==
  /\ dl.pc = "get"
  /\ dl'.status = s
  /\ \/ dl'.pc = "status"
     \/ dl'.pc = "get" /\ dl'.attempt = dl.attempt + 1

\* the adapter sends the GET again
Retried == dl.pc = "get" /\ dl'.pc = "get" /\ dl'.attempt = dl.attempt + 1

\* C20: a response with status 429 or any 5xx status is retried while the
\* budget lasts, a 4xx status other than 429 is never retried, no GET is
\* sent more than RetryTotal + 1 times, and a status other than 200 handed to
\* the downloader makes it fail with DownloadFailed.
C20_RetryPolicy ==
  [][/\ \A s \in Statuses :
          Responded(s) =>
            /\ dl.attempt <= RetryTotal
            /\ ((s = 429 \/ s \in 500..599) /\ dl.attempt < RetryTotal) => Retried
            /\ (s \in 400..499 /\ s # 429) => ~Retried
     /\ (dl.pc = "status" /\ dl.status # 200 /\ dl' # dl) =>
          (dl'.pc = "except" /\ dl'.error = "DownloadFailed")]_vars

\* the fields of the descriptor the installer loop is at
CurrentParts == Split(RStrip(depsFile[inst.idx]), ":")

\* the installer loop handles in this step a descriptor of five fields whose
\* classifier is not empty and does not match the platform
HandlesForeignDep ==
  /\ inst.pc = "loop"
  /\ inst.idx <= Len(depsFile)
  /\ inst' # inst
  /\ Len(CurrentParts) = 5
  /\ CurrentParts[4] # <<>>
  /\ ~ArchMatchesPlatform(CurrentParts[4], FETCH_ALL_NATIVE, sysPlatform, machine)

\* C21: a descriptor whose classifier does not match the platform is passed
\* over: the loop moves to the next descriptor without an error, whether or not
\* a checksum is required and present, no download is called, and the cache
\* directory and the checksum cache are left as they were.
C21_SkipHasNoEffect ==
  [][HandlesForeignDep =>
       /\ inst' = [inst EXCEPT !.idx = @ + 1]
       /\ UNCHANGED <<dl, jars, jarsExists, checksumCache, checksumFiles>>]_vars

C21_Witness ==
  /\ REQUIRE_CHECKSUMS
  /\ depsFile = <<MarkerDep, WinDep, SnapDep>>
  /\ \A e \in inst.checksum_map : e[1] \notin {<<"nat", "-", "1", ".", "dll">>,
        <<"nat", "-", "1", "-", "windows", "-", "x86_64", ".", "dll">>}
  /\ inst.pc = "returned"
  /\ hist.initKind = "partial"
  /\ Names(jars) = {ExpectedJar, SnapSo}

\* the positions are strictly increasing: none twice, in manifest order
Increasing(q) == \A i \in 1..Len(q) : \A j \in 1..Len(q) : i < j => q[i] < q[j]

\* C22: in one pass of _install_all_dependencies the downloader is called at most
\* once for each descriptor, in the order of the manifest, and only for a target
\* that does not exist when it is called (an existing file that failed its
\* verification has been removed before); when the download raises, the pass
\* raises the same error at that descriptor without calling the downloader
\* again, and when it returns the loop goes on to the next descriptor.
C22_OneDownloadPerDescriptor ==
  /\ [](/\ Increasing(hist.passDl)
        /\ \A i \in 1..Len(hist.passDl) : hist.passDl[i] \in 1..Len(depsFile)
        /\ inst.pc = "download" =>
             /\ hist.passDl # <<>>
             /\ hist.passDl[Len(hist.passDl)] = inst.idx
             /\ IsNone(hist.dlPre)
             /\ dl.target = CurrentDep.file_name_disk
        /\ inst.pc \in {"raised", "returned", "idle"} => dl.pc = "idle")
  /\ [][/\ (inst.pc = "download" /\ inst' # inst) =>
             \/ /\ dl.pc = "raised"
                /\ inst' = [inst EXCEPT !.pc = "raised", !.error = dl.error]
             \/ /\ dl.pc = "returned"
                /\ inst' = [inst EXCEPT !.pc = "loop", !.idx = @ + 1]
        /\ hist'.passDl # hist.passDl =>
             \/ hist'.passDl = <<>> /\ inst'.pc = "makedirs"
             \/ /\ hist'.passDl = Append(hist.passDl, inst.idx)
                /\ dl.pc = "idle" /\ dl'.pc = "mkstemp"
                /\ inst.pc = "loop" /\ inst'.pc = "download"
        /\ (dl.pc = "idle" /\ dl'.pc # "idle") =>
             hist'.passDl = Append(hist.passDl, inst.idx)]_vars

C22_Witness ==
  /\ hist.initKind = "stale"
  /\ depsFile = <<LibDep, MarkerDep>>
  /\ hist.passDl = <<1, 2>>
  /\ Read(jars, LibJar) = Some(GoodBody)
  /\ inst.pc = "raised"
  /\ inst.error = "DownloadFailed"
  /\ inst.idx = 2
  /\ ~Exists(jars, ExpectedJar)

\* C23: without FETCH_ALL_NATIVE, _arch_matches_platform(arch) is false for a
\* classifier <os>-<machine> of the running family whose machine is not the
\* running machine, false for any classifier that is not one of the <os> and
\* <os>-<machine> forms of the running platform, and false for every classifier
\* on a platform outside Linux, macOS and Windows.
C23_MachineTakenIntoAccount ==
  (~IsNone(hist.archRet) /\ ~FETCH_ALL_NATIVE) =>
    LET arch == Val(hist.archRet)[1]
        res == Val(hist.archRet)[2]
    IN /\ (Len(arch) = 3 /\ ArchFamily(arch) = OsFamily(sysPlatform)
           /\ Lower(<<arch[3]>>) # Lower(machine)) => ~res
       /\ Lower(arch) \notin Candidates(sysPlatform, Lower(machine)) => ~res
       /\ OsFamily(sysPlatform) = "other" => ~res

\* the checksums of the manifest file as _load_checksums reads them
ManifestSums ==
  IF IsNone(checksumFiles[ChecksumPath]) THEN EmptyMap
  ELSE LoadLines(EmptyMap, Val(checksumFiles[ChecksumPath]))

\* the file of directory d that descriptor i of the manifest names, if it is for
\* this platform and present, has a checksum in the manifest and that digest
VerifiedIn(d, i) ==
  LET r == Resolve(RStrip(depsFile[i]), FETCH_ALL_NATIVE, sysPlatform, machine)
      expected == ExpectedChecksum(ManifestSums, r.file_name_disk, r.file_name)
  IN (r.kind = "ok" /\ Exists(d, r.file_name_disk)) =>
       /\ Truthy(expected)
       /\ Lower(Sha256(Val(Read(d, r.file_name_disk)))) = Lower(Val(expected))

\* C24: with REQUIRE_CHECKSUMS set, the directory the JVM was launched with
\* holds, for every descriptor of the manifest that applies to the platform, only
\* a file that has a checksum in the manifest and whose SHA-256 digest equals it,
\* whether the directory was installed by this process or found in place.
C24_LaunchedVerified ==
  (REQUIRE_CHECKSUMS /\ ~IsNone(hist.launchJars)) =>
    \A i \in 1..Len(depsFile) : VerifiedIn(Val(hist.launchJars), i)

\* C25: while some call is inside start_java_archery_framework some step of it,
\* of the installer or of the downloader can be taken (no deadlock), and every
\* call that has begun, waiting for the lock or holding it, comes to its end,
\* returning or raising: whatever calls are made, the threads are all back
\* outside the function again and again.
C25_CallsTerminate ==
  /\ []((\E t \in Threads : pc[t] # "idle") => ENABLED Progress)
  /\ []<>(\A t \in Threads : pc[t] = "idle")

C25_Witness ==
  /\ hist.failed
  /\ calls = MaxCalls
  /\ \E t \in Threads :
       /\ lockHolder = t
       /\ pc[t] = "installing"
       /\ inst.pc = "download"
       /\ dl.pc = "get"
       /\ dl.attempt = RetryTotal
       /\ \A u \in Threads \ {t} : pc[u] = "acquire"

====
